---- MODULE Spec2Model ----
(***************************************************************************)
(* A model of the mod build orchestrator (build_mod.py) and of the         *)
(* single-file compiler entry point (compile_mod.py).                      *)
(*                                                                         *)
(* File names are sequences of tokens: a stem followed by the dotted       *)
(* extensions, so that "w.xml" is <<"w", ".xml">> and "w.xml.xml" is       *)
(* <<"w", ".xml", ".xml">>.  str.endswith and str.replace are modelled on  *)
(* the tokens.  A directory is the set of the names it holds.              *)
(*                                                                         *)
(* The asynchronous iteration over asyncio.as_completed is the one of      *)
(* Python 3.13: every awaitable is scheduled, the loop body receives each  *)
(* finished task and never asks for its result, so an exception raised in  *)
(* a task stays in the task.                                               *)
(***************************************************************************)
EXTENDS Integers, Sequences, FiniteSets, TLC

\* Number of component directories under <project>/src.
NumComponents == 2

Components == 1..NumComponents

(***************************************************************************)
(* File names                                                              *)
(***************************************************************************)
wXml == <<"w", ".xml">>
gXml == <<"g", ".xml">>
wLua == <<"w", ".lua">>
bDae == <<"b", ".dae">>
hOgg == <<"h", ".ogg">>
wXmlXml == <<"w", ".xml", ".xml">>
wXmlLua == <<"w", ".xml", ".lua">>
lDae == <<"l", ".dae">>
aOgg == <<"a", ".ogg">>
dXml == <<"d", ".xml">>
modXml == <<"mod", ".xml">>
modPng == <<"mod", ".png">>

\* The value None of Python; no file has the empty name.
None == << >>

\* str.endswith(suffix), for a suffix that is one dotted extension.
EndsWith(name, suffix) == Len(name) > 0 /\ name[Len(name)] = suffix

\* str.replace(old, new): every occurrence is replaced, not only the last.
Replace(name, old, new) ==
    [i \in 1..Len(name) |-> IF name[i] = old THEN new ELSE name[i]]

\* The name without its last extension.
BaseName(name) == SubSeq(name, 1, Len(name) - 1)

\* What the external tools deposit: the base name with the new extension.
WithExt(name, ext) == Append(BaseName(name), ext)

(***************************************************************************)
(* The contents a component directory is drawn from.                       *)
(***************************************************************************)
DirChoices ==
    { {wXml, wLua, bDae, hOgg},
      {gXml, wLua},
      {wXml, gXml, bDae},
      {wLua, hOgg},
      {wXmlXml, wXmlLua} }

\* A component directory with nothing but its definition file.
PlainDirs == { {wXml} }

\* The files of src/legacy/meshes, src/legacy/audio, src/legacy/definitions.
LegacyCategories == {"meshes", "audio", "definitions"}

LegacyFiles(cat) ==
    CASE cat = "meshes" -> {lDae, aOgg}
      [] cat = "audio" -> {aOgg, dXml}
      [] cat = "definitions" -> {dXml}

(***************************************************************************)
(* Directories of the scratch tree and of the output tree                  *)
(***************************************************************************)
Root == << >>
MeshBuildPath == <<"build", "meshes", 0>>
ComponentBuildPath(c) == <<"build", "components", c>>
OutData == <<"data">>
OutComponents == <<"data", "components">>
OutLegacy(cat) ==
    CASE cat = "meshes" -> <<"meshes">>
      [] cat = "audio" -> <<"audio">>
      [] cat = "definitions" -> <<"data", "definitions">>

File(dir, name) == [dir |-> dir, name |-> name]

EmptyTree == [dirs |-> {}, files |-> {}]

\* Path(tree root).is_dir()
Exists(tree) == Root \in tree.dirs

VARIABLES
    top,        \* which of mod.xml, mod.png, data the project root holds
    legacy,     \* which of the legacy source directories exist
    src,        \* the files of each component directory
    cwd,        \* the working directory of the process: "root" or "other"
    scratch,    \* the scratch tree /tmp/sw-mod-builder/<build_name>
    out,        \* the output tree <project>/build/<build_name>
    pc,         \* the phase run() is in
    tasks,      \* the units created so far and the state of each
    toolOut,    \* what each external tool invocation did
    reported,   \* the errors printed
    exitStatus, \* the exit status of the process, -1 while it runs
    run,        \* the number of the run, 1 or 2
    prevOut,    \* the output tree the previous run left
    cm,         \* the state of compile_mod.compile
    ord         \* two listings of one directory and the arguments built of each

vars == << top, legacy, src, cwd, scratch, out, pc, tasks, toolOut,
           reported, exitStatus, run, prevOut, cm, ord >>

project == << top, legacy, src, cwd >>

\* What a step of one run of the orchestrator never changes.
rest == << run, prevOut, cm, ord >>

\* The state of the orchestrator.
builder == << project, scratch, out, pc, tasks, toolOut, reported,
              exitStatus, run, prevOut >>

(***************************************************************************)
(* Units of work                                                           *)
(***************************************************************************)
\* A coroutine the orchestrator created: a mesh compile (comp 0: a legacy
\* mesh), a script transform, or the build of one component binary.
Unit(kind, comp, file) == [kind |-> kind, comp |-> comp, file |-> file]

NoTasks == [u \in {} |-> "pending"]

\* f extended by g on the arguments f does not have.
Extend(f, g) ==
    [u \in DOMAIN f \cup DOMAIN g |-> IF u \in DOMAIN f THEN f[u] ELSE g[u]]

Pending(units) == [u \in units |-> "pending"]

Terminal(u) == tasks[u] \in {"done", "raised"}

\* What an external tool can do when spawned: deposit its output, exit
\* without it, or fail to start (an exception in the coroutine).  A unit
\* spawned before does the same again (deterministic tools).
Outcomes(u) ==
    IF u \in DOMAIN toolOut THEN {toolOut[u]} ELSE {"ok", "noout", "fault"}

TopEntries == {"mod.xml", "mod.png", "data"}

StaleScratch ==
    [dirs |-> {Root, <<"build">>, <<"build", "meshes">>, MeshBuildPath},
     files |-> {File(MeshBuildPath, <<"old", ".mesh">>)}]

StaleOut ==
    [dirs |-> {Root, OutData, OutComponents, OutLegacy("meshes")},
     files |-> {File(OutComponents, <<"old", ".bin">>)}]

\* The projects with varied components: nothing else is unusual.
InitComponents ==
    /\ top = TopEntries
    /\ legacy = {}
    /\ src \in [Components -> DirChoices \cup PlainDirs]
    /\ cwd = "root"
    /\ scratch = EmptyTree
    /\ out = EmptyTree

\* The projects with a varied environment: the components are plain.
InitEnvironment ==
    /\ top \in SUBSET TopEntries
    /\ legacy \in SUBSET LegacyCategories
    /\ src \in [Components -> PlainDirs]
    /\ cwd \in {"root", "other"}
    /\ scratch \in {EmptyTree, StaleScratch}
    /\ out \in {EmptyTree, StaleOut}

\* The process has started and run() has not.
InitRun ==
    /\ pc = "Init"
    /\ tasks = NoTasks
    /\ toolOut = NoTasks
    /\ reported = {}
    /\ exitStatus = -1
    /\ run = 1
    /\ prevOut = EmptyTree

\* compile_mod is not running.
CompileIdle == [pc |-> "idle"]

\* No argument list is being built.
ArgsIdle == [pc |-> "idle"]

Init ==
    /\ InitComponents \/ InitEnvironment
    /\ InitRun
    /\ cm = CompileIdle
    /\ ord = ArgsIdle

(***************************************************************************)
(* ModBuilder._verify_paths                                                *)
(***************************************************************************)
\* Path(f"{project_path}/{filename}").is_file()
IsFile(filename) == filename \in top

\* Path().is_dir(): the path given is empty, which is the working
\* directory, and the working directory of a process is a directory.
DataPathIsDir == TRUE

VerifyPathsOk == IsFile("mod.xml") /\ IsFile("mod.png") /\ DataPathIsDir

VerifyPaths ==
    /\ pc = "Init"
    /\ IF VerifyPathsOk
         THEN pc' = "PathsVerified" /\ exitStatus' = exitStatus
         ELSE pc' = "Failed" /\ exitStatus' = 1
    /\ UNCHANGED << project, scratch, out, tasks, toolOut, reported, rest >>

(***************************************************************************)
(* ModBuilder._clear_build_cache, ModBuilder._prepare_build_paths          *)
(***************************************************************************)
\* A clearing that empties the tree and leaves its directory.
ClearBuildCacheContents(tree) ==
    IF Exists(tree) THEN [dirs |-> {Root}, files |-> {}] ELSE tree

\* shutil.rmtree(tree) when it is a directory
ClearBuildCache(tree) == IF Exists(tree) THEN EmptyTree ELSE tree

\* Path(dir).mkdir(parents=True, exist_ok=True)
MkdirParents(tree, dir) ==
    [tree EXCEPT !.dirs = @ \cup {SubSeq(dir, 1, k) : k \in 0..Len(dir)}]

ClearCache ==
    /\ pc = "PathsVerified"
    /\ scratch' = ClearBuildCache(scratch)
    /\ pc' = "CacheCleared"
    /\ UNCHANGED << project, out, tasks, toolOut, reported, exitStatus, rest >>

\* The output directories made in the tree as it is.
PreparedOutputKept(tree) ==
    [tree EXCEPT !.dirs = @ \cup {Root, OutData, OutComponents}]

\* rmtree of the output tree when it is a directory, then the three mkdir.
PreparedOutput(tree) ==
    [ClearBuildCache(tree) EXCEPT !.dirs = @ \cup {Root, OutData, OutComponents}]

PrepareBuildPaths ==
    /\ pc = "CacheCleared"
    /\ out' = PreparedOutput(out)
    /\ pc' = "OutputPrepared"
    /\ UNCHANGED << project, scratch, tasks, toolOut, reported, exitStatus,
                    rest >>

(***************************************************************************)
(* ModBuilder._copy_assets, ModBuilder._build_legacy                       *)
(***************************************************************************)
FilesOf(tree, dir) == {f.name : f \in {g \in tree.files : g.dir = dir}}

\* mkdir(target_dir), then copy every listed file that ends with filetype.
CopyAssets(tree, listing, targetDir, filetype) ==
    [dirs |-> tree.dirs \cup {targetDir},
     files |-> tree.files \cup
               {File(targetDir, x) : x \in {y \in listing : EndsWith(y, filetype)}}]

\* The check of the legacy directory left out: every category is built.
LegacyIsDirUnchecked(cat) == TRUE

\* Path(f"{project_path}/src/legacy/<category>").is_dir()
LegacyIsDir(cat) == cat \in legacy

\* The audio and definitions categories, each copied if its directory exists.
CopyLegacyAudioAndDefinitions(tree) ==
    LET t1 == IF LegacyIsDir("audio")
                THEN CopyAssets(tree, LegacyFiles("audio"), OutLegacy("audio"), ".ogg")
                ELSE tree
    IN  IF LegacyIsDir("definitions")
          THEN CopyAssets(t1, LegacyFiles("definitions"),
                          OutLegacy("definitions"), ".xml")
          ELSE t1

LegacyMeshUnits ==
    {Unit("mesh", 0, x) : x \in {y \in LegacyFiles("meshes") : EndsWith(y, ".dae")}}

\* _build_legacy up to its first suspension: the mesh tasks are created.
BuildLegacyMeshes ==
    /\ pc = "OutputPrepared"
    /\ LegacyIsDir("meshes")
    /\ scratch' = MkdirParents(scratch, MeshBuildPath)
    /\ tasks' = Extend(tasks, Pending(LegacyMeshUnits))
    /\ pc' = "LegacyMeshes"
    /\ UNCHANGED << project, out, toolOut, reported, exitStatus, rest >>

\* _build_legacy going on without waiting for its mesh tasks.
BuildLegacyCopyUnchecked ==
    /\ pc = "LegacyMeshes"
    /\ out' = CopyLegacyAudioAndDefinitions(
                  CopyAssets(out, FilesOf(scratch, MeshBuildPath),
                             OutLegacy("meshes"), ".mesh"))
    /\ pc' = "LegacyBuilt"
    /\ UNCHANGED << project, scratch, tasks, toolOut, reported, exitStatus,
                    rest >>

\* _build_legacy after the last mesh task finished.
BuildLegacyCopy ==
    /\ pc = "LegacyMeshes"
    /\ \A u \in LegacyMeshUnits : Terminal(u)
    /\ out' = CopyLegacyAudioAndDefinitions(
                  CopyAssets(out, FilesOf(scratch, MeshBuildPath),
                             OutLegacy("meshes"), ".mesh"))
    /\ pc' = "LegacyBuilt"
    /\ UNCHANGED << project, scratch, tasks, toolOut, reported, exitStatus,
                    rest >>

\* _build_legacy when src/legacy/meshes is no directory: it never suspends.
BuildLegacyNoMeshes ==
    /\ pc = "OutputPrepared"
    /\ ~LegacyIsDir("meshes")
    /\ out' = CopyLegacyAudioAndDefinitions(out)
    /\ pc' = "LegacyBuilt"
    /\ UNCHANGED << project, scratch, tasks, toolOut, reported, exitStatus,
                    rest >>

(***************************************************************************)
(* Component discovery: the loop of ModBuilder._build_components           *)
(***************************************************************************)
\* os.listdir(f"src/{component_dir}"): the path is relative to the working
\* directory; elsewhere than in the project root there is no such directory.
CanList == cwd = "root"

XmlFiles(files) == {x \in files : EndsWith(x, ".xml")}

\* _get_component_definition_file_path: the one .xml file, or None.
GetComponentDefinitionFile(files) ==
    IF Cardinality(XmlFiles(files)) = 1
      THEN CHOOSE x \in XmlFiles(files) : TRUE
      ELSE None

\* None.replace(...) raises AttributeError.
Raises == <<"AttributeError">>

\* _get_component_lua_file_path
GetComponentLuaFile(definition, files) ==
    LET luaFiles == {x \in files : EndsWith(x, ".lua")}
    IN  IF luaFiles = {} THEN None
        ELSE IF definition = None THEN Raises
        ELSE IF Replace(definition, ".xml", ".lua") \in luaFiles
               THEN Replace(definition, ".xml", ".lua")
        ELSE None

\* What one iteration of the loop creates for component c.
ComponentUnits(c) ==
    LET files == src[c]
        definition == GetComponentDefinitionFile(files)
        lua == GetComponentLuaFile(definition, files)
        meshes == {Unit("mesh", c, x) : x \in {y \in files : EndsWith(y, ".dae")}}
    IN  IF lua = Raises THEN meshes
        ELSE meshes
             \cup (IF lua = None THEN {} ELSE {Unit("lua", c, lua)})
             \cup {Unit("bin", c, definition)}

\* The iteration for c raises: the listing fails, or None has no replace.
IterationRaises(c) ==
    \/ ~CanList
    \/ GetComponentLuaFile(GetComponentDefinitionFile(src[c]), src[c]) = Raises

\* The loop over the components in listing order, from state acc.
RECURSIVE DiscoverLoop(_, _)
DiscoverLoop(order, acc) ==
    IF order = << >> \/ acc.raised THEN acc
    ELSE LET c == Head(order)
         IN  IF ~CanList THEN [acc EXCEPT !.raised = TRUE]
             ELSE DiscoverLoop(Tail(order),
                    [raised |-> IterationRaises(c),
                     scratch |-> MkdirParents(acc.scratch, ComponentBuildPath(c)),
                     units |-> acc.units \cup ComponentUnits(c),
                     reported |-> acc.reported \cup
                        (IF GetComponentDefinitionFile(src[c]) = None
                           THEN {[error |-> "definition", comp |-> c]}
                           ELSE {})])

\* The orders os.listdir can return the component directories in.
ListingOrders ==
    {o \in [1..NumComponents -> Components] :
        \A i, j \in 1..NumComponents : o[i] = o[j] => i = j}

BuildComponentsLoop ==
    /\ pc = "LegacyBuilt"
    /\ \E order \in ListingOrders :
         LET r == DiscoverLoop(order, [raised |-> FALSE, scratch |-> scratch,
                                       units |-> {}, reported |-> reported])
         IN  /\ scratch' = r.scratch
             /\ tasks' = Extend(tasks, Pending(r.units))
             /\ reported' = r.reported
             /\ IF r.raised
                  THEN pc' = "Crashed" /\ exitStatus' = 1
                  ELSE pc' = "MeshStage" /\ exitStatus' = exitStatus
    /\ UNCHANGED << project, out, toolOut, rest >>

(***************************************************************************)
(* The stages: asyncio.as_completed over the mesh, lua and bin coroutines  *)
(***************************************************************************)
\* The units the fan-out of the current phase runs.
StageUnits ==
    {u \in DOMAIN tasks :
        \/ pc = "LegacyMeshes" /\ u.comp = 0
        \/ pc = "MeshStage" /\ u.kind = "mesh" /\ u.comp # 0
        \/ pc = "LuaStage" /\ u.kind = "lua"
        \/ pc = "BinStage" /\ u.kind = "bin"}

\* The directory a unit's tool writes to.
BuildPath(u) == IF u.comp = 0 THEN MeshBuildPath ELSE ComponentBuildPath(u.comp)

AddFile(tree, dir, name) == [tree EXCEPT !.files = @ \cup {File(dir, name)}]

\* A spawn that raises ends every unit of the fan-out still pending.
SpawnedCancelling(u, o) ==
    IF o = "fault"
      THEN /\ toolOut' = Extend(toolOut, [v \in {u} |-> o])
           /\ tasks' = [v \in DOMAIN tasks |->
                           IF v = u \/ (v \in StageUnits /\ tasks[v] = "pending")
                             THEN "raised" ELSE tasks[v]]
      ELSE /\ toolOut' = toolOut
           /\ tasks' = [tasks EXCEPT ![u] = "running"]

\* The tool is spawned and runs, or the spawn raises in the coroutine.
Spawned(u, o) ==
    IF o = "fault"
      THEN /\ toolOut' = Extend(toolOut, [v \in {u} |-> o])
           /\ tasks' = [tasks EXCEPT ![u] = "raised"]
      ELSE /\ toolOut' = toolOut
           /\ tasks' = [tasks EXCEPT ![u] = "running"]

\* asyncio.create_subprocess_exec in _compile_mesh, _compile_component_mesh
\* and _compile_component_lua: the tool is spawned, or the spawn raises.
SpawnTool(u) ==
    /\ u \in StageUnits
    /\ u.kind \in {"mesh", "lua"}
    /\ tasks[u] = "pending"
    /\ \E o \in Outcomes(u) : Spawned(u, o)
    /\ UNCHANGED << project, scratch, out, pc, reported, exitStatus, rest >>

\* What the mesh compiler or the script transformer leaves in the tree.
ToolEffect(tree, u, o) ==
    IF o # "ok" THEN tree
    ELSE IF u.kind = "mesh" THEN AddFile(tree, BuildPath(u), WithExt(u.file, ".mesh"))
    ELSE AddFile(tree, BuildPath(u), u.file)

\* process.communicate() returns; the coroutine returns the exit code.
ToolExits(u) ==
    /\ u \in StageUnits
    /\ u.kind \in {"mesh", "lua"}
    /\ tasks[u] = "running"
    /\ \E o \in Outcomes(u) \ {"fault"} :
         /\ toolOut' = Extend(toolOut, [v \in {u} |-> o])
         /\ scratch' = ToolEffect(scratch, u, o)
    /\ tasks' = [tasks EXCEPT ![u] = "done"]
    /\ UNCHANGED << project, out, pc, reported, exitStatus, rest >>

\* _copy_component_assets: the definition file and the sorted .ogg files.
CopyComponentAssets(tree, u) ==
    [tree EXCEPT !.files = @ \cup
        {File(BuildPath(u), x) :
            x \in {u.file} \cup {y \in src[u.comp] : EndsWith(y, ".ogg")}}]

\* _build_component up to its suspension.  With no definition file the copy
\* of src/<component>/None raises; else the compiler is spawned.
StartBuildComponent(u) ==
    /\ u \in StageUnits
    /\ u.kind = "bin"
    /\ tasks[u] = "pending"
    /\ IF u.file = None
         THEN /\ tasks' = [tasks EXCEPT ![u] = "raised"]
              /\ UNCHANGED << scratch, toolOut >>
         ELSE /\ scratch' = CopyComponentAssets(scratch, u)
              /\ \E o \in Outcomes(u) : Spawned(u, o)
    /\ UNCHANGED << project, out, pc, reported, exitStatus, rest >>

\* definition_file.replace(".xml", ".bin")
BinFile(definition) == Replace(definition, ".xml", ".bin")

\* The component-binary compiler deposits <definition-basename>.bin.
CompilerEffect(tree, u, o) ==
    IF o = "ok"
      THEN AddFile(tree, BuildPath(u), WithExt(u.file, ".bin"))
      ELSE tree

\* _build_component after the compiler exited: the check of the .bin file,
\* the error message, and the copy, which raises when there is no file.
FinishBuildComponent(u) ==
    /\ u \in StageUnits
    /\ u.kind = "bin"
    /\ tasks[u] = "running"
    /\ \E o \in Outcomes(u) \ {"fault"} :
         /\ toolOut' = Extend(toolOut, [v \in {u} |-> o])
         /\ scratch' = CompilerEffect(scratch, u, o)
    /\ IF BinFile(u.file) \in FilesOf(scratch', BuildPath(u))
         THEN /\ out' = AddFile(out, OutComponents, BinFile(u.file))
              /\ tasks' = [tasks EXCEPT ![u] = "done"]
              /\ reported' = reported
         ELSE /\ out' = out
              /\ tasks' = [tasks EXCEPT ![u] = "raised"]
              /\ reported' = reported \cup {[error |-> "bin", comp |-> u.comp]}
    /\ UNCHANGED << project, pc, exitStatus, rest >>

NextStage ==
    CASE pc = "MeshStage" -> "LuaStage"
      [] pc = "LuaStage" -> "BinStage"
      [] pc = "BinStage" -> "ComponentsBuilt"

\* An async for that ends without waiting for the tasks given to it.
StageCompleteUnchecked ==
    /\ pc \in {"MeshStage", "LuaStage", "BinStage"}
    /\ pc' = NextStage
    /\ UNCHANGED << project, scratch, out, tasks, toolOut, reported,
                    exitStatus, rest >>

\* An async for over as_completed ends once every task of it has finished.
StageComplete ==
    /\ pc \in {"MeshStage", "LuaStage", "BinStage"}
    /\ \A u \in StageUnits : Terminal(u)
    /\ pc' = NextStage
    /\ UNCHANGED << project, scratch, out, tasks, toolOut, reported,
                    exitStatus, rest >>

(***************************************************************************)
(* The end of ModBuilder.run and of build                                  *)
(***************************************************************************)
\* shutil.copy of mod.xml and mod.png into the output tree
Assemble ==
    /\ pc = "ComponentsBuilt"
    /\ out' = AddFile(AddFile(out, Root, modXml), Root, modPng)
    /\ pc' = "Assembled"
    /\ UNCHANGED << project, scratch, tasks, toolOut, reported, exitStatus,
                    rest >>

\* The last _clear_build_cache; run returns and build returns 0.
Finish ==
    /\ pc = "Assembled"
    /\ scratch' = ClearBuildCache(scratch)
    /\ pc' = "Done"
    /\ exitStatus' = 0
    /\ UNCHANGED << project, out, tasks, toolOut, reported, rest >>

Ended == pc \in {"Done", "Crashed", "Failed"}

\* The orchestrator is run once more on the same project.
RunAgain ==
    /\ Ended
    /\ run = 1
    /\ run' = 2
    /\ prevOut' = out
    /\ pc' = "Init"
    /\ tasks' = NoTasks
    /\ reported' = {}
    /\ exitStatus' = -1
    /\ UNCHANGED << project, scratch, out, toolOut, cm, ord >>

Next ==
    \/ VerifyPaths
    \/ ClearCache
    \/ PrepareBuildPaths
    \/ BuildLegacyMeshes
    \/ BuildLegacyCopy
    \/ BuildLegacyNoMeshes
    \/ BuildComponentsLoop
    \/ \E u \in DOMAIN tasks : SpawnTool(u)
    \/ \E u \in DOMAIN tasks : ToolExits(u)
    \/ \E u \in DOMAIN tasks : StartBuildComponent(u)
    \/ \E u \in DOMAIN tasks : FinishBuildComponent(u)
    \/ StageComplete
    \/ Assemble
    \/ Finish

Spec == Init /\ [][Next]_vars

NextTwice == Next \/ RunAgain

SpecTwice == Init /\ [][NextTwice]_vars

\* Two runs in succession on the projects with a varied environment, where
\* a scratch tree and an output tree may be left from before the first run.
InitRerun ==
    /\ InitEnvironment
    /\ InitRun
    /\ cm = CompileIdle
    /\ ord = ArgsIdle

SpecRerun == InitRerun /\ [][NextTwice]_vars

(***************************************************************************)
(* compile_mod.py: the single-file compiler entry point                    *)
(***************************************************************************)
\* The definition path is given as "w.xml", "./w.xml" or "d/w.xml": a
\* directory part "", "." or "d", and a file name.
DirParts == {"", ".", "d"}

DefinitionPath(dir, name) == [dir |-> dir, name |-> name]

\* os.path.dirname(definition)
DirName(path) == path.dir

\* The directory a relative directory name denotes: the working directory
\* for "" and ".", its subdirectory d for "d".
Resolve(dir) == IF dir = "d" THEN "d" ELSE "cwd"

\* os.listdir(path) raises FileNotFoundError for the empty path.
ListdirRaises(path) == path = ""

\* The contents of the definition's directory when compile starts.
CompileDirChoices ==
    { {wXml},
      {wXml, bDae},
      {wXml, bDae, wLua, hOgg},
      {wXml, bDae, lDae},
      {wXml, hOgg, <<"old", ".mesh">>},
      {wXml, <<"w", ".bin">>},
      {wXmlXml, bDae} }

\* What the working directory holds besides, when the definition is in its
\* subdirectory d: nothing, or a mesh source of the same name as one in d.
CwdExtras(dir) == IF dir = "d" THEN {{}, {bDae}} ELSE {{}}

\* os.listdir(dir) on the file system fs
Listing(fs, dir) == {f.name : f \in {g \in fs : g.dir = Resolve(dir)}}

WithSuffix(files, suffix) == {x \in files : EndsWith(x, suffix)}

InitCompile ==
    /\ top = TopEntries
    /\ legacy = {}
    /\ src = [c \in Components |-> {wXml}]
    /\ cwd = "root"
    /\ scratch = EmptyTree
    /\ out = EmptyTree
    /\ InitRun
    /\ ord = ArgsIdle
    /\ \E dir \in DirParts, files \in CompileDirChoices :
       \E extra \in CwdExtras(dir) :
         cm = [pc |-> "start",
               definition |-> DefinitionPath(dir,
                                  CHOOSE x \in files : EndsWith(x, ".xml")),
               fs |-> {File(Resolve(dir), x) : x \in files}
                        \cup {File("cwd", x) : x \in extra},
               first |-> {},
               files |-> {},
               todo |-> {},
               compiled |-> {},
               assets |-> {},
               invoked |-> FALSE,
               exitCode |-> -1,
               produced |-> FALSE,
               result |-> -1]

\* compile, lines 101-112: the listing of the definition's directory.
CompileList ==
    /\ cm.pc = "start"
    /\ IF ListdirRaises(DirName(cm.definition))
         THEN cm' = [cm EXCEPT !.pc = "returned", !.result = 1]
         ELSE LET files == Listing(cm.fs, DirName(cm.definition))
              IN  cm' = [cm EXCEPT !.pc = "meshes",
                                   !.first = files,
                                   !.files = files,
                                   !.todo = WithSuffix(files, ".dae")]
    /\ UNCHANGED << builder, ord >>

\* The mesh compiler is given the bare file name and the output directory
\* "./": it finds its input only in the working directory.
MeshCompiled(fs, dae, o) ==
    IF o = "ok" /\ File("cwd", dae) \in fs
      THEN fs \cup {File("cwd", WithExt(dae, ".mesh"))}
      ELSE fs

\* One iteration of the loop of lines 115-117: _compile_mesh, then the
\* listing again.  An exception of subprocess.run ends compile with 1.
CompileMesh ==
    /\ cm.pc = "meshes"
    /\ \E dae \in cm.todo, o \in {"ok", "noout", "fault"} :
         IF o = "fault"
           THEN cm' = [cm EXCEPT !.pc = "returned", !.result = 1]
           ELSE LET fs1 == MeshCompiled(cm.fs, dae, o)
                IN  cm' = [cm EXCEPT
                             !.fs = fs1,
                             !.files = Listing(fs1, DirName(cm.definition)),
                             !.todo = @ \ {dae},
                             !.compiled = @ \cup {dae}]
    /\ UNCHANGED << builder, ord >>

\* asset_files = mesh_files + txtr_files + lua_files + ogg_files: the mesh
\* files of the last listing, the others of the first.
AssetFiles(files, first) ==
    WithSuffix(files, ".mesh") \cup WithSuffix(first, ".txtr")
        \cup WithSuffix(first, ".lua") \cup WithSuffix(first, ".ogg")

\* definition.replace(".xml", ".bin"), a path relative to the working
\* directory.
BinPath(definition) ==
    File(Resolve(DirName(definition)), Replace(definition.name, ".xml", ".bin"))

\* _compile_mod, lines 77-95, given the compiler's exit code: 0 after the
\* move of an existing .bin file, else the exit code.
CompileModResult(binExists, exitCode) == IF binExists THEN 0 ELSE exitCode

\* Path(bin_path).rename("build/components/<file name>")
MoveBin(fs, bin) ==
    IF bin \in fs
      THEN (fs \ {bin}) \cup {File("build/components", bin.name)}
      ELSE fs

\* The mod compiler deposits <definition-basename>.bin beside the
\* definition file, or does not.
ModCompiled(fs, definition, produced) ==
    IF produced
      THEN fs \cup {File(Resolve(DirName(definition)),
                         WithExt(definition.name, ".bin"))}
      ELSE fs

\* Lines 120-124 and _compile_mod: the mod compiler runs once the loop over
\* the meshes has ended; an exception of subprocess.run ends compile with 1.
CompileMod ==
    /\ cm.pc = "meshes"
    /\ cm.todo = {}
    /\ \E fault \in BOOLEAN, exitCode \in {0, 1}, produced \in BOOLEAN :
         LET fs1 == ModCompiled(cm.fs, cm.definition, produced)
             bin == BinPath(cm.definition)
         IN  IF fault
               THEN cm' = [cm EXCEPT !.pc = "returned", !.result = 1,
                                     !.invoked = TRUE]
               ELSE cm' = [cm EXCEPT
                             !.pc = "returned",
                             !.assets = AssetFiles(cm.files, cm.first),
                             !.invoked = TRUE,
                             !.exitCode = exitCode,
                             !.produced = produced,
                             !.fs = MoveBin(fs1, bin),
                             !.result = CompileModResult(bin \in fs1, exitCode)]
    /\ UNCHANGED << builder, ord >>

NextCompile ==
    \/ CompileList
    \/ CompileMesh
    \/ CompileMod

SpecCompile == InitCompile /\ [][NextCompile]_vars

(***************************************************************************)
(* The argument list of the component-binary compiler                      *)
(***************************************************************************)
\* The orders os.listdir can return the files of a directory in.
Orders(files) ==
    {o \in [1..Cardinality(files) -> files] :
        \A i, j \in 1..Cardinality(files) : o[i] = o[j] => i = j}

\* The files of a directory whose listing becomes the argument list: the
\* definition file and the assets beside it.
ArgDirChoices ==
    { {wXml, hOgg},
      {wXml, hOgg, aOgg},
      {wXml, wLua, hOgg, aOgg} }

\* build_mod: assets = os.listdir(component_build_path), and the command
\* MOD_COMPILER_CMD + [definition_file] + [*assets].
ComponentBinArgs(definition, listing) == << definition >> \o listing

\* [x for x in files if x.endswith(suffix)]
Filter(listing, suffix) ==
    LET Test(x) == EndsWith(x, suffix)
    IN  SelectSeq(listing, Test)

\* compile_mod: mesh_files + txtr_files + lua_files + ogg_files, each in
\* the order of the listing, and the command
\* MOD_COMPILER_CMD + [definition] + [*assets].
CompileModArgs(definition, listing) ==
    << definition >> \o Filter(listing, ".mesh") \o Filter(listing, ".txtr")
        \o Filter(listing, ".lua") \o Filter(listing, ".ogg")

\* One directory, listed in two orders.
InitArgs ==
    /\ top = TopEntries
    /\ legacy = {}
    /\ src = [c \in Components |-> {wXml}]
    /\ cwd = "root"
    /\ scratch = EmptyTree
    /\ out = EmptyTree
    /\ InitRun
    /\ cm = CompileIdle
    /\ \E files \in ArgDirChoices :
         \E o1, o2 \in Orders(files) :
            ord = [pc |-> "listed",
                   definition |-> CHOOSE x \in files : EndsWith(x, ".xml"),
                   first |-> o1,
                   second |-> o2,
                   args1 |-> << >>,
                   args2 |-> << >>]

\* _build_component builds the command of each listing.
BuildComponentArgs ==
    /\ ord.pc = "listed"
    /\ ord' = [ord EXCEPT
                 !.pc = "build_mod",
                 !.args1 = ComponentBinArgs(ord.definition, ord.first),
                 !.args2 = ComponentBinArgs(ord.definition, ord.second)]
    /\ UNCHANGED << builder, cm >>

\* compile builds the command of each listing.
CompileArgs ==
    /\ ord.pc = "listed"
    /\ ord' = [ord EXCEPT
                 !.pc = "compile_mod",
                 !.args1 = CompileModArgs(ord.definition, ord.first),
                 !.args2 = CompileModArgs(ord.definition, ord.second)]
    /\ UNCHANGED << builder, cm >>

NextArgs ==
    \/ BuildComponentArgs
    \/ CompileArgs

SpecArgs == InitArgs /\ [][NextArgs]_vars

(***************************************************************************)
(* Properties                                                              *)
(***************************************************************************)
\* The component directory holds exactly one definition file.
Valid(c) == GetComponentDefinitionFile(src[c]) # None

UnitsOf(c) == {u \in DOMAIN tasks : u.comp = c}

\* The unit's tool did not do its work: the spawn raised, or the tool
\* exited without its output.
ToolFailed(u) == u \in DOMAIN toolOut /\ toolOut[u] # "ok"

\* The component failed: no valid definition, or a tool of one of its
\* units faulted or left no output.
ComponentFailed(c) == ~Valid(c) \/ \E u \in UnitsOf(c) : ToolFailed(u)

\* run() was left after the path verification, by its end or by an
\* exception.
RunEnded == pc \in {"Done", "Crashed"}

\* The loop over the component directories has ended without an exception.
Discovered ==
    pc \in {"MeshStage", "LuaStage", "BinStage", "ComponentsBuilt",
            "Assembled", "Done"}

\* C1: whenever a run that passed the path verification has ended and a
\* component failed, the exit status of the process is not zero.
C1_NonzeroExitOnFailure ==
    (RunEnded /\ \E c \in Components : ComponentFailed(c)) => exitStatus # 0

\* C3: for a component directory with no or several .xml files the error is
\* reported, no unit is created for the component, and every other
\* component is built to its end.
C3_InvalidComponentSkipped ==
    \A c \in Components :
        (~Valid(c) /\ cwd = "root") =>
            /\ (Discovered \/ pc = "Crashed") =>
                   /\ [error |-> "definition", comp |-> c] \in reported
                   /\ UnitsOf(c) = {}
            /\ RunEnded =>
                   \A d \in Components :
                       Valid(d) =>
                           \E u \in UnitsOf(d) : u.kind = "bin" /\ Terminal(u)

\* C4: when a run that passed the path verification ends, the scratch tree
\* does not exist.
C4_ScratchAbsentAtEnd == (RunEnded /\ cwd = "root") => ~Exists(scratch)

\* C5: with mod.xml, mod.png or the data directory missing the run fails in
\* the path verification: it never gets further, and no unit is created.
C5_MissingTopLevelIsFatal ==
    (top # TopEntries /\ pc # "Init") => (pc = "Failed" /\ tasks = NoTasks)

\* Every unit created ran its tool and the tool left its output.
AllToolsProduced == \A u \in DOMAIN tasks : u \in DOMAIN toolOut /\ toolOut[u] = "ok"

\* C6: when every component has one definition file and every tool left its
\* output, at Done the output tree holds mod.xml, mod.png and
\* <definition-basename>.bin of every component, and there is no scratch
\* tree.
C6_CompleteOutput ==
    (pc = "Done" /\ AllToolsProduced /\ \A c \in Components : Valid(c)) =>
        /\ File(Root, modXml) \in out.files
        /\ File(Root, modPng) \in out.files
        /\ \A c \in Components :
              File(OutComponents,
                   WithExt(GetComponentDefinitionFile(src[c]), ".bin")) \in out.files
        /\ ~Exists(scratch)

\* The legacy step is over.
LegacyOver ==
    pc \in {"LegacyBuilt", "MeshStage", "LuaStage", "BinStage",
            "ComponentsBuilt", "Assembled", "Done", "Crashed"}

\* The legacy step is running or over.
LegacyEntered == pc = "LegacyMeshes" \/ LegacyOver

\* C7: a legacy category whose source directory is absent gets no directory
\* in the output tree and no tool; the legacy step raises nothing, whichever
\* categories are absent; the categories that are present are copied; and
\* the build of every component is started and run to its end.
C7_AbsentLegacySkipped ==
    /\ LegacyEntered =>
          \A cat \in LegacyCategories \ legacy :
              /\ OutLegacy(cat) \notin out.dirs
              /\ cat = "meshes" => \A u \in DOMAIN tasks : u.comp # 0
    /\ LegacyOver =>
          \A cat \in legacy : OutLegacy(cat) \in out.dirs
    /\ pc = "Crashed" => \E c \in Components : IterationRaises(c)
    /\ Discovered =>
          \A c \in Components :
              \E u \in UnitsOf(c) : u.kind = "bin" /\ (pc = "Done" => Terminal(u))

\* The meshes and definitions directories are absent, the audio directory
\* is present and copied, and the components are built.
C7_Witness ==
    /\ pc = "Done"
    /\ legacy = {"audio"}
    /\ out.dirs = {Root, OutData, OutComponents, OutLegacy("audio")}
    /\ File(OutLegacy("audio"), aOgg) \in out.files
    /\ File(OutComponents, <<"w", ".bin">>) \in out.files

\* C8: after each of two runs in succession the scratch tree is absent, and
\* the second leaves the output tree the first left.
C8_Idempotent ==
    /\ (RunEnded /\ cwd = "root") => ~Exists(scratch)
    /\ (RunEnded /\ run = 2) => out = prevOut

\* C9: the script transform of a component with definition file D is created
\* for a .lua file of its directory iff the file's base name is D's.
C9_ScriptIffBaseNameMatches ==
    Discovered =>
        \A c \in Components :
            Valid(c) =>
                \A f \in {x \in src[c] : EndsWith(x, ".lua")} :
                    Unit("lua", c, f) \in DOMAIN tasks
                        <=> BaseName(f) = BaseName(GetComponentDefinitionFile(src[c]))

\* C10: for a component one of whose mesh compiles or whose script
\* transform failed, the binary compiler is not run and no binary is copied
\* to the package.
C10_FailedStageAbortsComponent ==
    \A u \in DOMAIN tasks :
        (u.kind = "bin" /\ \E v \in UnitsOf(u.comp) :
                               v.kind \in {"mesh", "lua"} /\ ToolFailed(v))
            => tasks[u] \notin {"running", "done"}

\* C2: when the mod compiler has exited and <definition-basename>.bin exists
\* neither beside the definition file nor, moved, in build/components,
\* compile returns a nonzero result.
C2_MissingBinIsFailure ==
    (/\ cm.pc = "returned"
     /\ cm.exitCode # -1
     /\ \A f \in cm.fs : f.name # WithExt(cm.definition.name, ".bin"))
        => cm.result # 0

\* C11: once the build of a component's binary has started, every mesh
\* compile and the script transform of that component have ended; while the
\* compiler runs, the definition file and the audio files of the component
\* are in its scratch directory.
C11_BinAfterOwnStages ==
    \A u \in DOMAIN tasks :
        (u.kind = "bin" /\ tasks[u] # "pending") =>
            /\ \A v \in UnitsOf(u.comp) :
                   v.kind \in {"mesh", "lua"} => tasks[v] \in {"done", "raised"}
            /\ tasks[u] = "running" =>
                   \A x \in {u.file} \cup {y \in src[u.comp] : EndsWith(y, ".ogg")} :
                       File(ComponentBuildPath(u.comp), x) \in scratch.files

\* The compiler of a component runs after the component's mesh compile and
\* script transform, while the binary of a component listed later is done.
C11_Witness ==
    \E u, w \in DOMAIN tasks :
        /\ u.kind = "bin" /\ tasks[u] = "running"
        /\ \E v \in UnitsOf(u.comp) : v.kind = "mesh" /\ tasks[v] = "done"
        /\ \E v \in UnitsOf(u.comp) : v.kind = "lua" /\ tasks[v] = "done"
        /\ w.kind = "bin" /\ w.comp > u.comp /\ tasks[w] = "done"

\* The phases of a run that reaches its end, in the order of run().
PhaseOrder ==
    << "Init", "PathsVerified", "CacheCleared", "OutputPrepared",
       "LegacyMeshes", "LegacyBuilt", "MeshStage", "LuaStage", "BinStage",
       "ComponentsBuilt", "Assembled", "Done" >>

Rank(p) == CHOOSE i \in 1..Len(PhaseOrder) : PhaseOrder[i] = p

\* The phase whose fan-out a unit is submitted to.
StageOf(u) ==
    IF u.comp = 0 THEN "LegacyMeshes"
    ELSE CASE u.kind = "mesh" -> "MeshStage"
           [] u.kind = "lua" -> "LuaStage"
           [] u.kind = "bin" -> "BinStage"

\* C12: once the run is past the phase of a fan-out, every unit submitted
\* to that fan-out is done or has raised: none is pending or running.
C12_FanOutJoins ==
    \A u \in DOMAIN tasks :
        /\ (pc \notin {"Crashed", "Failed"} /\ Rank(pc) > Rank(StageOf(u)))
               => tasks[u] \in {"done", "raised"}
        /\ (pc = "Crashed" /\ u.comp = 0) => tasks[u] \in {"done", "raised"}

\* The run is over after a legacy mesh fan-out and a binary fan-out, one
\* unit of which raised while the other was done.
C12_Witness ==
    /\ pc = "Done"
    /\ \E u \in DOMAIN tasks : u.comp = 0 /\ tasks[u] = "done"
    /\ \E u, v \in DOMAIN tasks :
          /\ u.kind = "bin" /\ tasks[u] = "raised"
          /\ v.kind = "bin" /\ tasks[v] = "done"

\* The unit fails by what it is given: its tool cannot be spawned or leaves
\* no output, it has no definition file, or the compiler's output is not
\* the file the builder looks for.
OwnFault(u) ==
    \/ u \in DOMAIN toolOut /\ toolOut[u] # "ok"
    \/ u.kind = "bin" /\ (u.file = None \/ BinFile(u.file) # WithExt(u.file, ".bin"))

\* The units submitted to the fan-out of phase s.
FanOut(s) == {u \in DOMAIN tasks : StageOf(u) = s}

\* C13: when a fan-out is over and exactly one of its units failed by what
\* it was given, every unit of it has ended, and every other unit ran its
\* tool and is done.
C13_FailureIsolated ==
    \A s \in {"LegacyMeshes", "MeshStage", "LuaStage", "BinStage"} :
        (/\ pc \notin {"Crashed", "Failed"}
         /\ Rank(pc) > Rank(s)
         /\ Cardinality({u \in FanOut(s) : OwnFault(u)}) = 1)
            => \A u \in FanOut(s) :
                   /\ tasks[u] \in {"done", "raised"}
                   /\ ~OwnFault(u) =>
                          /\ tasks[u] = "done"
                          /\ u \in DOMAIN toolOut /\ toolOut[u] = "ok"

\* Of two mesh compiles and of two binary builds, one could not spawn its
\* tool and the other is done.
C13_Witness ==
    /\ pc = "Done"
    /\ \E u, v \in FanOut("MeshStage") :
          /\ toolOut[u] = "fault" /\ tasks[u] = "raised"
          /\ toolOut[v] = "ok" /\ tasks[v] = "done"
    /\ \E u, v \in FanOut("BinStage") :
          /\ u \in DOMAIN toolOut /\ toolOut[u] = "fault" /\ tasks[u] = "raised"
          /\ tasks[v] = "done"

\* The phase of the state machine of run() a phase of the model is part
\* of: the legacy fan-out precedes LegacyBuilt, the component stages
\* precede ComponentsBuilt.
PhaseOf(p) ==
    CASE p = "LegacyMeshes" -> "OutputPrepared"
      [] p \in {"MeshStage", "LuaStage", "BinStage"} -> "LegacyBuilt"
      [] OTHER -> p

RunPhases ==
    << "Init", "PathsVerified", "CacheCleared", "OutputPrepared",
       "LegacyBuilt", "ComponentsBuilt", "Assembled", "Done" >>

\* A step of the run within a phase, to the next phase, or to Failed on a
\* required top-level entry that is missing.
PhaseStep ==
    \/ PhaseOf(pc') = PhaseOf(pc)
    \/ \E i \in 1..(Len(RunPhases) - 1) :
          PhaseOf(pc) = RunPhases[i] /\ PhaseOf(pc') = RunPhases[i + 1]
    \/ pc' = "Failed" /\ top # TopEntries

\* C14: every step of a run stays in its phase or leads to the next phase
\* of Init, PathsVerified, CacheCleared, OutputPrepared, LegacyBuilt,
\* ComponentsBuilt, Assembled, Done, or leads to Failed on a missing
\* top-level entry; a run ends in no other way.
C14_PhaseOrder == [][PhaseStep]_vars

\* C15: no two builds of a component binary that copied their file to
\* data/components of the output tree copied it under the same name.
C15_WriteOncePerFilename ==
    \A u, v \in DOMAIN tasks :
        (/\ u.kind = "bin" /\ tasks[u] = "done"
         /\ v.kind = "bin" /\ tasks[v] = "done"
         /\ BinFile(u.file) = BinFile(v.file))
            => u = v

\* C16: the commands built of two listings of the same directory are the
\* same sequence of arguments, in the orchestrator and in the single-file
\* compiler.
C16_ArgsIndependentOfListingOrder ==
    ord.pc \in {"build_mod", "compile_mod"} => ord.args1 = ord.args2

\* A limit below the number of units of a fan-out.
ConcurrencyLimit == NumComponents - 1

Running == {u \in DOMAIN tasks : tasks[u] = "running"}

\* C17: with the concurrency limit k, at most k units are running at once.
C17_AtMostKRunning == Cardinality(Running) <= ConcurrencyLimit

\* C18: whatever the working directory, once the loop over the component
\* directories has been left, the files of every component were read from
\* <project root>/src/<component>: with one definition file in each, the
\* build of each component was created with that definition file.
C18_PathsFromProjectRoot ==
    ((Discovered \/ pc = "Crashed") /\ \A c \in Components : Valid(c))
        => \A c \in Components :
               Unit("bin", c, GetComponentDefinitionFile(src[c])) \in DOMAIN tasks

\* The output tree holds the empty directories data and data/components.
FreshOutput == [dirs |-> {Root, OutData, OutComponents}, files |-> {}]

\* C19: after the preparation of the output the output tree is exactly the
\* empty directories data and data/components, and from then on it holds
\* no file of a prior build and no file of a prior scratch tree.
C19_OutputFresh ==
    /\ pc = "OutputPrepared" => out = FreshOutput
    /\ (LegacyEntered \/ pc = "OutputPrepared") =>
          /\ \A f \in StaleOut.files : f \notin out.files
          /\ \A f \in StaleScratch.files :
                File(OutLegacy("meshes"), f.name) \notin out.files

\* The second run has prepared the output, and the first had left files.
C19_Witness ==
    /\ run = 2
    /\ pc = "OutputPrepared"
    /\ File(OutComponents, << "w", ".bin" >>) \in prevOut.files
    /\ out = FreshOutput

\* C20: clearing a scratch tree that does not exist changes nothing;
\* clearing leaves no scratch tree; clearing what was cleared changes
\* nothing; and after the clearing step of a run there is no scratch tree.
C20_ClearIdempotent ==
    /\ ~Exists(scratch) => ClearBuildCache(scratch) = scratch
    /\ ~Exists(ClearBuildCache(scratch))
    /\ ClearBuildCache(ClearBuildCache(scratch)) = ClearBuildCache(scratch)
    /\ pc = "CacheCleared" => ~Exists(scratch)

\* The first run cleared the scratch tree at its end and the second has
\* cleared it again.
C20_Witness ==
    /\ run = 2
    /\ pc = "CacheCleared"
    /\ File(Root, modXml) \in prevOut.files
    /\ ~Exists(scratch)

\* The .mesh files the mesh compilations of this call left.
ProducedMeshes ==
    {f \in cm.fs : \E dae \in cm.compiled : f.name = WithExt(dae, ".mesh")}

\* C21: when the mod compiler has been invoked, no mesh compilation is
\* left to do, and every .mesh file the mesh compilations produced is in
\* the asset list the mod compiler was given.
C21_MeshesBeforeModAndIncluded ==
    (cm.pc = "returned" /\ cm.invoked /\ cm.exitCode # -1) =>
        /\ cm.todo = {}
        /\ \A f \in ProducedMeshes : f.name \in cm.assets

\* C22: compile always returns a result; it returns 1 when it ends on an
\* exception, before the mod compiler has exited; and it returns 0 only
\* when <definition-basename>.bin is in build/components.
C22_ResultReflectsOutcome ==
    cm.pc = "returned" =>
        /\ cm.result # -1
        /\ cm.exitCode = -1 => cm.result = 1
        /\ cm.result = 0 =>
              File("build/components", WithExt(cm.definition.name, ".bin"))
                  \in cm.fs

====
